---- MODULE Spec2Model ----
(***************************************************************************)
(* Model of backend/src/core/models.ts: the embedding-model resolver.      *)
(*                                                                         *)
(* A JavaScript string that is parsed (the content of models.yml) is a     *)
(* sequence of tokens: the one-character tokens " ", ":", "#", "\n" and    *)
(* words, a word standing for a run of characters that holds none of       *)
(* those four.  A string that is used as a key or a value of the mapping   *)
(* is a TLA+ string, the concatenation of its tokens.  No word is          *)
(* `__proto__`, the one key whose assignment creates no own property.      *)
(***************************************************************************)
EXTENDS Integers, Sequences, FiniteSets, TLC

VARIABLES
    fs,         \* the filesystem: candidate path -> file state
    cfg,        \* the module-level cache cell `cfg` (models.ts:6)
    log,        \* the console: the diagnostics emitted so far
    reads,      \* the readFileSync calls made so far, with their results
    checks,     \* the paths handed to existsSync so far
    op,         \* the last step taken: a call of the API or a filesystem change
    ret_cfg,    \* what the last load_models() call returned
    ret_model,  \* what the last get_model() call returned
    threw,      \* whether an exception escaped the last call
    yml,        \* the parser's input, when parse_yaml is exercised alone
    parsed,     \* the parser's output for yml
    callers,    \* the callers the host serves: where each is, what it obtained
    held,       \* the reference the last load_models() handed to its caller
    edits       \* the entries a caller has set or deleted through that reference

vars == <<fs, cfg, log, reads, checks, op, ret_cfg, ret_model, threw, yml, parsed,
          callers, held, edits>>

-----------------------------------------------------------------------------
(* Bounds of the model.                                                    *)

\* The longest text, in lines, handed to the parser when it is exercised alone.
MaxLines == 3

\* The callers that may be waiting for the host at once.
NumCallers == 2

-----------------------------------------------------------------------------
(* JavaScript strings as token sequences.                                  *)

NL == "\n"

Whitespace == {" ", "\t", "\r"}

\* The JavaScript string a token sequence spells.
RECURSIVE Str(_)
Str(s) == IF s = <<>> THEN "" ELSE s[1] \o Str(Tail(s))

\* String.prototype.trimStart / trimEnd / trim.
RECURSIVE TrimStart(_)
TrimStart(s) ==
    IF s # <<>> /\ s[1] \in Whitespace THEN TrimStart(Tail(s)) ELSE s

RECURSIVE TrimEnd(_)
TrimEnd(s) ==
    IF s # <<>> /\ s[Len(s)] \in Whitespace
    THEN TrimEnd(SubSeq(s, 1, Len(s) - 1))
    ELSE s

Trim(s) == TrimEnd(TrimStart(s))

\* line.search(/\S/): the 0-based offset of the first non-whitespace
\* character, -1 when there is none.
Search(s) ==
    IF \E i \in 1..Len(s) : s[i] \notin Whitespace
    THEN (CHOOSE i \in 1..Len(s) :
            /\ s[i] \notin Whitespace
            /\ \A j \in 1..(i - 1) : s[j] \in Whitespace) - 1
    ELSE -1

\* String.prototype.split(sep) for a one-character separator: always at
\* least one part, the parts hold no separator.
RECURSIVE Split(_, _)
Split(s, sep) ==
    IF \E i \in 1..Len(s) : s[i] = sep
    THEN LET i == CHOOSE i \in 1..Len(s) :
                    s[i] = sep /\ \A j \in 1..(i - 1) : s[j] # sep
         IN  <<SubSeq(s, 1, i - 1)>> \o Split(SubSeq(s, i + 1, Len(s)), sep)
    ELSE <<s>>

\* Array.prototype.join(sep).
RECURSIVE Join(_, _)
Join(parts, sep) ==
    IF parts = <<>> THEN <<>>
    ELSE IF Len(parts) = 1 THEN parts[1]
    ELSE parts[1] \o <<sep>> \o Join(Tail(parts), sep)

\* trim.startsWith("#").
StartsWithHash(s) == s # <<>> /\ s[1] = "#"

-----------------------------------------------------------------------------
(* JavaScript objects: an object literal is the function of its own        *)
(* properties.                                                             *)

EmptyObj == [k \in {} |-> ""]

\* o[k] = v on a plain object.
Put(o, k, v) == [x \in DOMAIN o \cup {k} |-> IF x = k THEN v ELSE o[x]]

\* string | null
Null == <<>>
Some(x) == <<x>>

-----------------------------------------------------------------------------
(* parse_yaml (models.ts:42-62).                                           *)

\* `cur_sec && ...` (models.ts:57): the truthiness of a string | null; null
\* and the empty string are both falsy.
SectionActive(cur_sec) == cur_sec # Null /\ cur_sec[1] # ""

\* The test without the `val` operand: every top-level line is a header.
top_level_scalar_as_header(indent, val) == FALSE

\* `indent === 0 && val` (models.ts:52): a top-level line carrying a value.
top_level_scalar(indent, val) == indent = 0 /\ val # ""

\* The value cut at its first colon: split(":")[1] alone.
value_up_to_next_colon(parts) ==
    IF Len(parts) >= 2 THEN Str(Trim(parts[2])) ELSE ""

\* `val_parts.join(":").trim()` (models.ts:50-51): what follows the first
\* colon of the trimmed line, its further colons put back, trimmed.
value_of(parts) == Str(Trim(Join(Tail(parts), ":")))

\* A header that keeps the section it names when there is one already.
new_section_keeps_existing(o, key) ==
    IF key \in DOMAIN o THEN o ELSE Put(o, key, EmptyObj)

\* `obj[cur_sec] = {}` (models.ts:56).
new_section(o, key) == Put(o, key, EmptyObj)

\* One turn of the loop over the lines (models.ts:46-60).  st is the loop's
\* state: the object built so far and the current section.
parse_line(st, line) ==
    LET trim == Trim(line) IN
    IF trim = <<>> \/ StartsWithHash(trim) THEN st
    ELSE
        LET indent == Search(line)
            parts  == Split(trim, ":")
            key    == Str(parts[1])
            val    == value_of(parts)
        IN  IF top_level_scalar(indent, val) THEN st
            ELSE IF indent = 0 THEN
                [cur_sec |-> Some(key), obj |-> new_section(st.obj, key)]
            ELSE IF SectionActive(st.cur_sec) /\ val # "" THEN
                [st EXCEPT !.obj =
                    Put(st.obj, st.cur_sec[1],
                        Put(st.obj[st.cur_sec[1]], key, val))]
            ELSE st

\* The loop has finished a line before it reads the next: the state is
\* evaluated at each iteration (cur_sec is null or names a section of obj),
\* not carried unevaluated to the end of the text.
RECURSIVE parse_lines(_, _)
parse_lines(st, lines) ==
    IF lines = <<>> \/ (st.cur_sec # Null /\ st.cur_sec[1] \notin DOMAIN st.obj)
    THEN st
    ELSE parse_lines(parse_line(st, Head(lines)), Tail(lines))

parse_yaml(text) ==
    parse_lines([cur_sec |-> Null, obj |-> EmptyObj], Split(text, NL)).obj

-----------------------------------------------------------------------------
(* get_defaults (models.ts:64-100).                                        *)

\* The table with the reflective sector a copy of the other four.
get_defaults_reflective_as_others ==
    [ sector \in {"episodic", "semantic", "procedural", "emotional", "reflective"} |->
        [ ollama |-> "nomic-embed-text",
          openai |-> "text-embedding-3-small",
          gemini |-> "gemini-embedding-001",
          aws    |-> "amazon.titan-embed-text-v2:0",
          local  |-> "all-MiniLM-L6-v2" ] ]

get_defaults ==
    [ episodic   |-> [ ollama |-> "nomic-embed-text",
                       openai |-> "text-embedding-3-small",
                       gemini |-> "gemini-embedding-001",
                       aws    |-> "amazon.titan-embed-text-v2:0",
                       local  |-> "all-MiniLM-L6-v2" ],
      semantic   |-> [ ollama |-> "nomic-embed-text",
                       openai |-> "text-embedding-3-small",
                       gemini |-> "gemini-embedding-001",
                       aws    |-> "amazon.titan-embed-text-v2:0",
                       local  |-> "all-MiniLM-L6-v2" ],
      procedural |-> [ ollama |-> "nomic-embed-text",
                       openai |-> "text-embedding-3-small",
                       gemini |-> "gemini-embedding-001",
                       aws    |-> "amazon.titan-embed-text-v2:0",
                       local  |-> "all-MiniLM-L6-v2" ],
      emotional  |-> [ ollama |-> "nomic-embed-text",
                       openai |-> "text-embedding-3-small",
                       gemini |-> "gemini-embedding-001",
                       aws    |-> "amazon.titan-embed-text-v2:0",
                       local  |-> "all-MiniLM-L6-v2" ],
      reflective |-> [ ollama |-> "nomic-embed-text",
                       openai |-> "text-embedding-3-large",
                       gemini |-> "gemini-embedding-001",
                       aws    |-> "amazon.titan-embed-text-v2:0",
                       local  |-> "all-mpnet-base-v2" ] ]

-----------------------------------------------------------------------------
(* get_model (models.ts:102-109).                                          *)
(*                                                                         *)
(* What get_model hands back is a JavaScript value: the `||` chain returns *)
(* the first truthy operand as it is, whatever its type.                   *)

JSString(s)   == [type |-> "string",    val |-> s]
JSNumber(n)   == [type |-> "number",    val |-> n]
JSFunction(n) == [type |-> "function",  val |-> n]
JSUndefined   == [type |-> "undefined", val |-> ""]

\* The operand test of `||`.
Truthy(v) ==
    CASE v.type = "string"    -> v.val # ""
      [] v.type = "number"    -> v.val # "0"
      [] v.type = "function"  -> TRUE
      [] OTHER                -> FALSE

\* A property read that misses the object's own properties goes on to
\* Object.prototype, which every object literal inherits from: constructor
\* is the function Object, toString the function toString.
ObjectPrototype(k) ==
    CASE k = "constructor" -> JSFunction("Object")
      [] k = "toString"    -> JSFunction("toString")
      [] OTHER             -> JSUndefined

\* A property read on one of those functions: Object.name is "Object",
\* Object.length is 1, toString.length is 0.
FunctionMember(f, k) ==
    CASE k = "name"        -> JSString(f.val)
      [] k = "length"      -> JSNumber(IF f.val = "Object" THEN "1" ELSE "0")
      [] k = "constructor" -> JSFunction("Function")
      [] k = "toString"    -> JSFunction("toString")
      [] OTHER             -> JSUndefined

\* section[provider], section one of the mapping's sections.
Member(section, provider) ==
    IF provider \in DOMAIN section
    THEN JSString(section[provider])
    ELSE ObjectPrototype(provider)

\* c[sector]?.[provider] (models.ts:105, and :106 with sector "semantic").
Index(c, sector, provider) ==
    IF sector \in DOMAIN c THEN Member(c[sector], provider)
    ELSE LET inherited == ObjectPrototype(sector)
         IN  IF inherited.type = "undefined" THEN JSUndefined
             ELSE FunctionMember(inherited, provider)

\* The return expression of get_model, c the mapping load_models() returned.
resolve(c, sector, provider) ==
    LET own      == Index(c, sector, provider)
        semantic == Index(c, "semantic", provider)
    IN  IF Truthy(own) THEN own
        ELSE IF Truthy(semantic) THEN semantic
        ELSE JSString("nomic-embed-text")

-----------------------------------------------------------------------------
(* The filesystem, find_models_file (models.ts:8-18) and load_models       *)
(* (models.ts:20-40).                                                      *)

\* join(__dirname, "../../../models.yml"), "/app/models.yml" and
\* join(process.cwd(), "models.yml"), in the order of the array `paths`.
InstallPath == "<__dirname>/../../../models.yml"
AppPath     == "/app/models.yml"
CwdPath     == "<cwd>/models.yml"

\* The array in another order: the working directory first.
paths_cwd_first == <<CwdPath, AppPath, InstallPath>>

paths == <<InstallPath, AppPath, CwdPath>>

Paths == {InstallPath, AppPath, CwdPath}

\* A path holds nothing, something that exists and cannot be read (no
\* permission, a directory, a file removed right after the existence check),
\* or a readable file with its content.
Absent       == [st |-> "absent",     data |-> <<>>]
Unreadable   == [st |-> "unreadable", data |-> <<>>]
File(data)   == [st |-> "file",       data |-> data]

existsSync(f, p) == f[p].st # "absent"

\* readFileSync(p, "utf-8"): the content, or an exception.
readFileSync(f, p) == [threw |-> f[p].st # "file", data |-> f[p].data]

RECURSIVE find_from(_, _, _)
find_from(f, ps, checked) ==
    IF ps = <<>> THEN [p |-> Null, checked |-> checked]
    ELSE IF existsSync(f, Head(ps))
         THEN [p |-> Some(Head(ps)), checked |-> Append(checked, Head(ps))]
         ELSE find_from(f, Tail(ps), Append(checked, Head(ps)))

\* The path found (or null), with the existence checks made on the way.
find_models_file(f) == find_from(f, paths, <<>>)

\* console.warn / console.log / console.error, with what the message holds:
\* the informational one names the path and the number of sections.
Diagnostic(level, p, sectors) == [level |-> level, path |-> p, sectors |-> sectors]

\* The test as a language where an empty mapping is falsy would make it.
CacheHit_empty_is_falsy(c) == c # Null /\ DOMAIN c[1] # {}

\* `if (cfg)` (models.ts:21): an object is truthy, an empty one too.
CacheHit(c) == c # Null

\* What a call of load_models does: the cache cell after it, what it returns,
\* what it logs, reads and checks, and whether an exception leaves it.
Outcome(c, ret, diag, rd, found, exc) ==
    [cfg |-> c, ret |-> ret, log |-> diag, reads |-> rd,
     checks |-> found.checked, threw |-> exc]

\* What a readFileSync call was asked and what it gave.
Read(p, r) == [path |-> p, threw |-> r.threw, data |-> r.data]

\* models.ts:23-27, no candidate exists.
on_absent(found) ==
    Outcome(Some(get_defaults), get_defaults,
            <<Diagnostic("warn", Null, 0)>>, <<>>, found, FALSE)

\* The read without its try/catch: the exception leaves load_models and the
\* cache cell stays null.
on_error_uncaught(found, r) ==
    Outcome(Null, EmptyObj, <<>>, <<Read(found.p[1], r)>>, found, TRUE)

\* A catch block that goes on to the candidates of lower priority and loads
\* the first one it can read; the Defaults Table only when there is none.
on_error_retry(found, r) ==
    LET rest == SubSeq(paths, Len(found.checked) + 1, Len(paths))
        next == find_from(fs, rest, found.checked)
    IN  IF next.p # Null /\ ~readFileSync(fs, next.p[1]).threw
        THEN LET r2 == readFileSync(fs, next.p[1])
                 o  == parse_yaml(r2.data)
             IN  Outcome(Some(o), o,
                         <<Diagnostic("info", next.p, Cardinality(DOMAIN o))>>,
                         <<Read(found.p[1], r), Read(next.p[1], r2)>>, next, FALSE)
        ELSE Outcome(Some(get_defaults), get_defaults,
                     <<Diagnostic("error", Null, 0)>>,
                     <<Read(found.p[1], r)>>, found, FALSE)

\* models.ts:35-39, the catch block: readFileSync threw.
on_error(found, r) ==
    Outcome(Some(get_defaults), get_defaults,
            <<Diagnostic("error", Null, 0)>>,
            <<Read(found.p[1], r)>>, found, FALSE)

\* models.ts:30-34, the file was read: Object.keys(cfg).length sections.
on_read(found, r) ==
    LET o == parse_yaml(r.data)
    IN  Outcome(Some(o), o,
                <<Diagnostic("info", found.p, Cardinality(DOMAIN o))>>,
                <<Read(found.p[1], r)>>, found, FALSE)

\* `return cfg` handing out a copy of the mapping (a clone of the cache
\* cell's object) instead of the object itself.
handed_copy(m) == [ref |-> "copy", obj |-> m]

\* `return cfg` (models.ts:21, 26, 34, 38): what the caller gets is a
\* reference to the cache cell's own object, m being its content then.
handed(m) == [ref |-> "cache", obj |-> EmptyObj]

\* load_models without its first line: every call loads again.
load_models_uncached(c, f) ==
    LET found == find_models_file(f) IN
    IF found.p = Null THEN on_absent(found)
    ELSE LET r == readFileSync(f, found.p[1]) IN
         IF r.threw THEN on_error(found, r) ELSE on_read(found, r)

load_models(c, f) ==
    IF CacheHit(c)
    THEN Outcome(c, c[1], <<>>, <<>>, [p |-> Null, checked |-> <<>>], FALSE)
    ELSE LET found == find_models_file(f) IN
         IF found.p = Null THEN on_absent(found)
         ELSE LET r == readFileSync(f, found.p[1]) IN
              IF r.threw THEN on_error(found, r) ELSE on_read(found, r)

-----------------------------------------------------------------------------
(* The inputs.                                                             *)

\* The example of the configuration dialect: two sections, a comment.
FileExample ==
    Join(<< <<"semantic", ":">>,
            <<" ", " ", "openai", ":", " ", "custom-model-A">>,
            <<"#", " ", "comment", " ", "line">>,
            <<"episodic", ":">>,
            <<" ", " ", "local", ":", " ", "custom-model-B">>,
            <<>> >>, NL)

\* A top-level line carrying a value, and nothing else.
FileTopLevelScalar == <<"foo", ":", " ", "bar">>

FileTexts == {FileExample, FileTopLevelScalar}

FileStates == {Absent, Unreadable} \cup {File(t) : t \in FileTexts}

\* The arguments get_model is called with: every built-in sector with every
\* built-in provider, names no configuration holds, and names of properties
\* that Object.prototype and its functions have.
BuiltinSectors   == {"episodic", "semantic", "procedural", "emotional", "reflective"}
BuiltinProviders == {"ollama", "openai", "gemini", "aws", "local"}

Queries ==
    (BuiltinSectors \X BuiltinProviders) \cup
    { <<"x", "openai">>, <<"episodic", "unknown-provider">>,
      <<"episodic", "constructor">>, <<"constructor", "name">>,
      <<"toString", "length">> }

\* The entries a caller edits in the mapping it was handed.
EditTargets == { <<"semantic", "openai">>, <<"reflective", "local">> }

\* The lines the parser's input is made of when it is exercised alone.
Lines ==
    { <<"semantic", ":">>,
      <<"x", ":">>,
      <<":">>,
      <<" ", " ", "openai", ":", " ", "m1">>,
      <<" ", " ", "openai", ":", "m2", " ">>,
      <<" ", "aws", ":", " ", "titan", ":", "0">>,
      <<" ", "local", ":", " ">>,
      <<"foo", ":", " ", "bar">>,
      <<"#", " ", "openai", ":", " ", "m3">>,
      <<" ">> }

\* The Defaults Table written out in the dialect: a header line for each
\* sector, under it an indented `provider: model` line for each provider.
\* A model name is written as its tokens: the one name with a colon in it
\* is a word, the colon and a word.
ValueTokens(v) ==
    IF v = "amazon.titan-embed-text-v2:0"
    THEN <<"amazon.titan-embed-text-v2", ":", "0">>
    ELSE <<v>>

SectorOrder   == <<"episodic", "semantic", "procedural", "emotional", "reflective">>
ProviderOrder == <<"ollama", "openai", "gemini", "aws", "local">>

DefaultsTableLines ==
    [ n \in 1..(Len(SectorOrder) * (Len(ProviderOrder) + 1)) |->
        LET sector == SectorOrder[((n - 1) \div (Len(ProviderOrder) + 1)) + 1]
            k      == (n - 1) % (Len(ProviderOrder) + 1)
        IN  IF k = 0 THEN <<sector, ":">>
            ELSE <<" ", " ", ProviderOrder[k], ":", " ">>
                     \o ValueTokens(get_defaults[sector][ProviderOrder[k]]) ]

DefaultsTableText == Join(DefaultsTableLines, NL)

\* A text whose second `semantic:` header comes after two entries of the
\* first.
RepeatedHeaderText ==
    Join(<< <<"semantic", ":">>,
            <<" ", " ", "openai", ":", " ", "m1">>,
            <<" ", "aws", ":", " ", "titan", ":", "0">>,
            <<"semantic", ":">>,
            <<" ", " ", "openai", ":", "m2", " ">> >>, NL)

Texts ==
    UNION { { Join(ls, NL) : ls \in [1..n -> Lines] } : n \in 0..MaxLines }
        \cup {DefaultsTableText, RepeatedHeaderText}

-----------------------------------------------------------------------------
(* The state machine.                                                      *)

\* mapping[sector][provider] is an entry of the mapping.
Present(m, sector, provider) == sector \in DOMAIN m /\ provider \in DOMAIN m[sector]

NoCall     == [name |-> "none", sector |-> "", provider |-> ""]
NotParsed  == [done |-> FALSE, obj |-> EmptyObj]

\* The callers the host has: each makes one call.  A caller is idle, then
\* waits for the host to run its call, then has the mapping the call gave;
\* `early` tells that it asked while the cache cell was still null.
Callers == 1..NumCallers
Idle    == [st |-> "idle", early |-> FALSE, ret |-> EmptyObj]

\* No reference handed out yet; no entry edited yet.
NoRef   == [ref |-> "none", obj |-> EmptyObj]
NoEdits == [t \in EditTargets |-> "none"]

\* The module has just been loaded: the cache cell is null, the filesystem
\* is in any state.
Init ==
    /\ fs \in [Paths -> FileStates]
    /\ cfg = Null
    /\ log = <<>>
    /\ reads = <<>>
    /\ checks = <<>>
    /\ op = NoCall
    /\ ret_cfg = EmptyObj
    /\ ret_model = JSUndefined
    /\ threw = FALSE
    /\ yml = <<>>
    /\ parsed = NotParsed
    /\ callers = [c \in Callers |-> Idle]
    /\ held = NoRef
    /\ edits = NoEdits

\* The effects of the load_models() call that r describes.
Effects(r) ==
    /\ cfg' = r.cfg
    /\ log' = log \o r.log
    /\ reads' = reads \o r.reads
    /\ checks' = checks \o r.checks
    /\ ret_cfg' = r.ret
    /\ threw' = r.threw
    /\ held' = IF r.threw THEN held ELSE handed(r.ret)

\* A caller calls load_models().
LoadModels ==
    /\ Effects(load_models(cfg, fs))
    /\ op' = [name |-> "load_models", sector |-> "", provider |-> ""]
    /\ ret_model' = JSUndefined
    /\ UNCHANGED <<fs, yml, parsed, callers, edits>>

\* A caller calls get_model(sector, provider).
GetModel(sector, provider) ==
    LET r == load_models(cfg, fs) IN
    /\ Effects(r)
    /\ op' = [name |-> "get_model", sector |-> sector, provider |-> provider]
    /\ ret_model' = IF r.threw THEN JSUndefined
                    ELSE resolve(r.ret, sector, provider)
    /\ UNCHANGED <<fs, yml, parsed, callers, edits>>

FsStep == [name |-> "fs", sector |-> "", provider |-> ""]

\* The environment creates or rewrites a candidate file.
FsWrite(p, data) ==
    /\ fs[p] # File(data)
    /\ fs' = [fs EXCEPT ![p] = File(data)]
    /\ op' = FsStep
    /\ UNCHANGED <<cfg, log, reads, checks, ret_cfg, ret_model, threw, yml, parsed,
                   callers, held, edits>>

\* The environment removes a candidate.
FsUnlink(p) ==
    /\ fs[p] # Absent
    /\ fs' = [fs EXCEPT ![p] = Absent]
    /\ op' = FsStep
    /\ UNCHANGED <<cfg, log, reads, checks, ret_cfg, ret_model, threw, yml, parsed,
                   callers, held, edits>>

\* The environment makes a candidate unreadable.
FsRevoke(p) ==
    /\ fs[p] # Unreadable
    /\ fs' = [fs EXCEPT ![p] = Unreadable]
    /\ op' = FsStep
    /\ UNCHANGED <<cfg, log, reads, checks, ret_cfg, ret_model, threw, yml, parsed,
                   callers, held, edits>>

Next ==
    \/ LoadModels
    \/ \E q \in Queries : GetModel(q[1], q[2])
    \/ \E p \in Paths, data \in FileTexts : FsWrite(p, data)
    \/ \E p \in Paths : FsUnlink(p)
    \/ \E p \in Paths : FsRevoke(p)

Spec == Init /\ [][Next]_vars

\* The parser alone: any text of at most MaxLines lines, parsed once.
InitParser ==
    /\ fs = [p \in Paths |-> Absent]
    /\ cfg = Null
    /\ log = <<>>
    /\ reads = <<>>
    /\ checks = <<>>
    /\ op = NoCall
    /\ ret_cfg = EmptyObj
    /\ ret_model = JSUndefined
    /\ threw = FALSE
    /\ yml \in Texts
    /\ parsed = NotParsed
    /\ callers = [c \in Callers |-> Idle]
    /\ held = NoRef
    /\ edits = NoEdits

ParseYaml ==
    /\ ~parsed.done
    /\ parsed' = [done |-> TRUE, obj |-> parse_yaml(yml)]
    /\ UNCHANGED <<fs, cfg, log, reads, checks, op, ret_cfg, ret_model, threw, yml,
                   callers, held, edits>>

NextParser == ParseYaml

SpecParser == InitParser /\ [][NextParser]_vars

\* Several callers.  load_models and get_model are synchronous functions
\* (no await, no callback between their first and last statement), and the
\* host runs one call at a time to completion: what it is free to choose is
\* the order of the waiting calls, and the files may change between two of
\* them.

\* A caller asks for the mapping: its call is queued with the host.
Request(c) ==
    /\ callers[c].st = "idle"
    /\ callers' = [callers EXCEPT ![c] = [st |-> "waiting", early |-> cfg = Null,
                                          ret |-> EmptyObj]]
    /\ UNCHANGED <<fs, cfg, log, reads, checks, op, ret_cfg, ret_model, threw,
                   yml, parsed, held, edits>>

\* The host runs the call of a waiting caller: load_models(), which is also
\* the first statement of get_model (models.ts:103).
Serve(c) ==
    LET r == load_models(cfg, fs) IN
    /\ callers[c].st = "waiting"
    /\ Effects(r)
    /\ op' = [name |-> "load_models", sector |-> "", provider |-> ""]
    /\ ret_model' = JSUndefined
    /\ callers' = [callers EXCEPT ![c] = [st |-> "done", early |-> @.early,
                                          ret |-> r.ret]]
    /\ UNCHANGED <<fs, yml, parsed, edits>>

NextCallers ==
    \/ \E c \in Callers : Request(c)
    \/ \E c \in Callers : Serve(c)
    \/ \E p \in Paths, data \in FileTexts : FsWrite(p, data)
    \/ \E p \in Paths : FsUnlink(p)
    \/ \E p \in Paths : FsRevoke(p)

SpecCallers == Init /\ [][NextCallers]_vars

-----------------------------------------------------------------------------
(* A caller that edits the mapping it was given.  What load_models returns *)
(* is a JavaScript object reference: an assignment or a `delete` through   *)
(* it acts on the object the reference designates.                         *)

\* The model identifier the caller writes.
MutatedModel == "caller-model"

\* `delete o[k]`.
Remove(o, k) == [x \in DOMAIN o \ {k} |-> o[x]]

\* The object the reference designates: the cache cell's, or the caller's own.
Target == IF held.ref = "cache" THEN cfg[1] ELSE held.obj

\* The caller's edit leaves m in the designated object.
Store(m) ==
    /\ cfg' = IF held.ref = "cache" THEN Some(m) ELSE cfg
    /\ held' = IF held.ref = "cache" THEN held ELSE [held EXCEPT !.obj = m]

EditStep == [name |-> "edit", sector |-> "", provider |-> ""]

\* mapping[sector][provider] = MutatedModel, through the reference.
SetEntry(t) ==
    /\ held # NoRef
    /\ t[1] \in DOMAIN Target
    /\ Store(Put(Target, t[1], Put(Target[t[1]], t[2], MutatedModel)))
    /\ edits' = [edits EXCEPT ![t] = "set"]
    /\ op' = EditStep
    /\ UNCHANGED <<fs, log, reads, checks, ret_cfg, ret_model, threw, yml, parsed,
                   callers>>

\* delete mapping[sector][provider], through the reference.
DeleteEntry(t) ==
    /\ held # NoRef
    /\ Present(Target, t[1], t[2])
    /\ Store(Put(Target, t[1], Remove(Target[t[1]], t[2])))
    /\ edits' = [edits EXCEPT ![t] = "deleted"]
    /\ op' = EditStep
    /\ UNCHANGED <<fs, log, reads, checks, ret_cfg, ret_model, threw, yml, parsed,
                   callers>>

NextMutate ==
    \/ LoadModels
    \/ \E q \in Queries : GetModel(q[1], q[2])
    \/ \E t \in EditTargets : SetEntry(t)
    \/ \E t \in EditTargets : DeleteEntry(t)

SpecMutate == Init /\ [][NextMutate]_vars

-----------------------------------------------------------------------------
(* The claims.                                                             *)

IsCall == op.name \in {"load_models", "get_model"}

\* The first load read a file, and the read gave `data`.
LoadedFrom(data) == reads # <<>> /\ ~reads[1].threw /\ reads[1].data = data

\* The three tiers as the specification states them.
ThreeTier(m, sector, provider) ==
    IF Present(m, sector, provider) THEN JSString(m[sector][provider])
    ELSE IF Present(m, "semantic", provider) THEN JSString(m["semantic"][provider])
    ELSE JSString("nomic-embed-text")

\* C1: for every active mapping and every (sector, provider), get_model
\* returns mapping[sector][provider] if that entry is present, otherwise
\* mapping["semantic"][provider] if that one is present, otherwise the
\* literal "nomic-embed-text".
C1_ThreeTierFallback ==
    op.name = "get_model" =>
        ret_model = ThreeTier(cfg[1], op.sector, op.provider)

\* C1, for the names that are not names of inherited properties: the three
\* tiers are tried in the stated order.
C1_ThreeTierFallbackOwnNames ==
    ( /\ op.name = "get_model"
      /\ ObjectPrototype(op.sector) = JSUndefined
      /\ ObjectPrototype(op.provider) = JSUndefined ) =>
        ret_model = ThreeTier(cfg[1], op.sector, op.provider)

\* C2: when the file read by the first load is the single top-level line
\* `foo: bar`, load_models() returns the Defaults Table.
C2_TopLevelScalarGivesDefaults ==
    (op.name = "load_models" /\ LoadedFrom(FileTopLevelScalar)) =>
        ret_cfg = get_defaults

\* C2 as amended: when the file read by the first load is the single
\* top-level line `foo: bar`, load_models() returns the parser's output for
\* it, the mapping with no section, which is also what the cache cell holds;
\* the diagnostic is the informational one, reporting 0 sections.
C2_TopLevelScalarGivesEmptyMapping ==
    LoadedFrom(FileTopLevelScalar) =>
        /\ cfg = Some(EmptyObj)
        /\ log = <<Diagnostic("info", Some(reads[1].path), 0)>>
        /\ op.name = "load_models" => ret_cfg = EmptyObj /\ ~threw

C2_Witness ==
    /\ op.name = "load_models"
    /\ LoadedFrom(FileTopLevelScalar)
    /\ ret_cfg = EmptyObj
    /\ ret_cfg # get_defaults

\* C3: when the candidate found exists and reading it raises an error, the
\* first load puts the complete Defaults Table into the cache cell, emits an
\* error diagnostic, returns that mapping and lets no exception reach the
\* caller; nothing in the cache comes from the failed read.
C3_ReadErrorGivesDefaults ==
    (reads # <<>> /\ reads[1].threw) =>
        /\ cfg = Some(get_defaults)
        /\ Len(log) = 1 /\ log[1].level = "error"
        /\ IsCall => ret_cfg = get_defaults /\ ~threw

C3_Witness ==
    /\ op.name = "load_models"
    /\ reads # <<>> /\ reads[1].threw
    /\ ret_cfg = get_defaults
    /\ log = <<Diagnostic("error", Null, 0)>>

\* The step taken is a call of the API.
CallStep == IsCall'

\* What a load would give now, were the cache cell empty.
FreshLoad == load_models(Null, fs)

\* C4: the cache cell is null at first, is assigned by the first
\* load_models() or get_model() call, and never changes afterwards, whatever
\* happens to the candidate files: every later call hands back the mapping
\* the first call returned.
C4_CacheSetOnceNeverChanged ==
    /\ cfg = Null
    /\ [][ /\ cfg # Null => cfg' = cfg
           /\ CallStep => /\ cfg' # Null
                          /\ ~threw'
                          /\ ret_cfg' = cfg'[1]
                          /\ cfg # Null => ret_cfg' = cfg[1] ]_vars

\* A call made after the files changed: a load made now would give another
\* mapping than the one cached and returned.
C4_Witness ==
    /\ op.name = "load_models"
    /\ cfg # Null
    /\ ret_cfg = cfg[1]
    /\ FreshLoad.cfg # cfg

IsPrefix(a, b) == Len(a) <= Len(b) /\ a = SubSeq(b, 1, Len(a))

\* C5: over any sequence of calls at most one file is read, the existence
\* checks are those of the first call (each candidate checked at most once,
\* in order), and exactly one diagnostic is emitted, by the first call;
\* also when the first load gave a mapping with no section.
C5_OneLoadOneDiagnostic ==
    /\ Len(reads) <= 1
    /\ IsPrefix(checks, <<InstallPath, AppPath, CwdPath>>)
    /\ cfg = Null => log = <<>> /\ reads = <<>> /\ checks = <<>> /\ ~IsCall
    /\ cfg # Null => Len(log) = 1 /\ Len(checks) >= 1
    /\ IsCall => cfg # Null

\* A call made with a cached mapping of no section, after the files changed
\* so that a load made now would read a file and give another mapping.
C5_Witness ==
    /\ IsCall
    /\ cfg = Some(EmptyObj)
    /\ Len(log) = 1 /\ Len(reads) = 1
    /\ FreshLoad.cfg # cfg
    /\ FreshLoad.reads # <<>>
    /\ FreshLoad.reads[1].path # reads[1].path

\* C6: no exception leaves load_models or get_model, and get_model returns a
\* non-empty string, for every state of the filesystem and every (sector,
\* provider).
C6_NeverThrowsAlwaysString ==
    IsCall =>
        /\ ~threw
        /\ op.name = "get_model" => ret_model.type = "string" /\ ret_model.val # ""

\* C7: the locator checks the installation-relative path, then
\* /app/models.yml, then the one of the working directory, and stops at the
\* first that exists: the loading call reads the first existing candidate and
\* no other, and reads nothing when none exists.
C7_FirstExistingCandidate ==
    [][ (cfg = Null /\ cfg' # Null) =>
            LET order    == <<InstallPath, AppPath, CwdPath>>
                existing == {i \in 1..3 : fs[order[i]] # Absent}
            IN  IF existing = {}
                THEN reads' = <<>> /\ checks' = order
                ELSE LET first == CHOOSE i \in existing : \A j \in existing : i <= j
                     IN  /\ Len(reads') = 1
                         /\ reads'[1].path = order[first]
                         /\ checks' = SubSeq(order, 1, first) ]_vars

\* The second candidate was read while the third exists too.
C7_Witness ==
    /\ op.name = "load_models"
    /\ fs[InstallPath] = Absent /\ fs[AppPath] # Absent /\ fs[CwdPath] # Absent
    /\ Len(reads) = 1 /\ reads[1].path = AppPath
    /\ checks = <<InstallPath, AppPath>>
    /\ FreshLoad.cfg = cfg

\* The Defaults Table, entry by entry.
DefaultsTableValue(sector, provider) ==
    CASE provider = "ollama" -> "nomic-embed-text"
      [] provider = "openai" -> IF sector = "reflective"
                                THEN "text-embedding-3-large"
                                ELSE "text-embedding-3-small"
      [] provider = "gemini" -> "gemini-embedding-001"
      [] provider = "aws"    -> "amazon.titan-embed-text-v2:0"
      [] provider = "local"  -> IF sector = "reflective"
                                THEN "all-mpnet-base-v2"
                                ELSE "all-MiniLM-L6-v2"

IsDefaultsTable(m) ==
    /\ DOMAIN m = BuiltinSectors
    /\ \A sector \in BuiltinSectors :
        /\ DOMAIN m[sector] = BuiltinProviders
        /\ \A provider \in BuiltinProviders :
            m[sector][provider] = DefaultsTableValue(sector, provider)

\* C8: when no candidate exists the first load puts the Defaults Table into
\* the cache cell and emits a warning, and get_model returns the table's
\* value for each of the 5 built-in sectors and 5 built-in providers, with
\* "text-embedding-3-large" for reflective/openai and "all-mpnet-base-v2"
\* for reflective/local.
C8_NoFileGivesDefaults ==
    /\ [][ (cfg = Null /\ CallStep /\ \A p \in Paths : fs[p] = Absent) =>
              /\ log' = <<Diagnostic("warn", Null, 0)>>
              /\ IsDefaultsTable(cfg'[1])
              /\ ret_cfg' = cfg'[1] ]_vars
    /\ []( ( /\ log # <<>> /\ log[1].level = "warn"
             /\ op.name = "get_model"
             /\ op.sector \in BuiltinSectors
             /\ op.provider \in BuiltinProviders ) =>
                ret_model = JSString(DefaultsTableValue(op.sector, op.provider)) )

C8_Witness ==
    /\ log = <<Diagnostic("warn", Null, 0)>>
    /\ reads = <<>>
    /\ op = [name |-> "get_model", sector |-> "reflective", provider |-> "openai"]
    /\ ret_model = JSString("text-embedding-3-large")

\* What the dialect makes of one line: "skip" for a blank line, a comment and
\* an indented line with no value, "scalar" for a top-level line with a
\* value, "header" for a top-level line without one, "entry" for an indented
\* line with a value.
LineKey(line) == Str(Split(Trim(line), ":")[1])
LineVal(line) == Str(Trim(Join(Tail(Split(Trim(line), ":")), ":")))
LineKind(line) ==
    IF Trim(line) = <<>> \/ Trim(line)[1] = "#" THEN "skip"
    ELSE IF Search(line) = 0
         THEN (IF LineVal(line) # "" THEN "scalar" ELSE "header")
         ELSE (IF LineVal(line) # "" THEN "entry" ELSE "skip")

\* The header line an entry line stands under: the last one before it, 0 when
\* there is none.
HeaderOf(ls, j) ==
    LET hs == {i \in 1..(j - 1) : LineKind(ls[i]) = "header"}
    IN  IF hs = {} THEN 0 ELSE CHOOSE i \in hs : \A h \in hs : h <= i

\* The entry lines that count for section `sector`: those under a header of
\* that name which no later header of the same name has emptied again.
EntriesOf(ls, sector) ==
    {j \in 1..Len(ls) :
        /\ LineKind(ls[j]) = "entry"
        /\ HeaderOf(ls, j) # 0
        /\ LineKey(ls[HeaderOf(ls, j)]) = sector
        /\ \A i \in (j + 1)..Len(ls) :
            ~(LineKind(ls[i]) = "header" /\ LineKey(ls[i]) = sector)}

\* The mapping the dialect assigns to a text.
IsDialectMapping(o, ls) ==
    /\ DOMAIN o = {LineKey(ls[i]) : i \in {i \in 1..Len(ls) : LineKind(ls[i]) = "header"}}
    /\ \A sector \in DOMAIN o :
        /\ DOMAIN o[sector] = {LineKey(ls[j]) : j \in EntriesOf(ls, sector)}
        /\ \A j \in EntriesOf(ls, sector) :
            (\A i \in EntriesOf(ls, sector) :
                LineKey(ls[i]) = LineKey(ls[j]) => i <= j)
            => o[sector][LineKey(ls[j])] = LineVal(ls[j])

\* C9: for every text, parse(text) holds exactly one section for each
\* top-level line without a value and one entry, under the most recent
\* header, for each indented line with a value that follows a header; blank
\* lines, comments, top-level lines with a value, indented lines before any
\* header and indented lines without a value add nothing.  For every header
\* key, the empty string too.
C9_ParserBuildsDialectMapping ==
    parsed.done => IsDialectMapping(parsed.obj, Split(yml, NL))

\* C9, for the texts whose headers all have a non-empty key.
C9_ParserBuildsDialectMappingNamedHeaders ==
    ( /\ parsed.done
      /\ \A i \in 1..Len(Split(yml, NL)) :
            LineKind(Split(yml, NL)[i]) = "header" => LineKey(Split(yml, NL)[i]) # "" )
    => IsDialectMapping(parsed.obj, Split(yml, NL))

\* C10, the cache cell alone: once populated it holds exactly the parser's
\* output for the content that was read, or exactly the Defaults Table when
\* nothing was read or the read failed.
C10_CacheIsParserOutputOrDefaults ==
    cfg # Null =>
        IF reads # <<>> /\ ~reads[1].threw
        THEN cfg[1] = parse_yaml(reads[1].data)
        ELSE IsDefaultsTable(cfg[1])

\* C10: once populated, the cache cell is exactly the parser's output for
\* the file that was read or exactly the Defaults Table, never a merge: after
\* a successful load get_model for a sector or provider absent from the file
\* gives the file's semantic entry or the literal, and after a failed load no
\* entry of the file is present.
C10_NeverMergedWithDefaults ==
    /\ C10_CacheIsParserOutputOrDefaults
    /\ ( /\ op.name = "get_model"
         /\ reads # <<>> /\ ~reads[1].threw
         /\ ~Present(cfg[1], op.sector, op.provider) ) =>
            ret_model = IF Present(cfg[1], "semantic", op.provider)
                        THEN JSString(cfg[1]["semantic"][op.provider])
                        ELSE JSString("nomic-embed-text")

\* C11: when several callers invoke load_models or get_model before the
\* cache is populated, then in every order in which the host runs their
\* calls, with the files changing in between, every caller obtains the same
\* mapping, the cache cell ends holding that mapping, and the mapping is a
\* whole one: the parser's output for the content read, or the Defaults
\* Table.
C11_CallersConverge ==
    /\ \A c \in Callers :
        callers[c].st = "done" => cfg # Null /\ callers[c].ret = cfg[1]
    /\ \A c, d \in Callers :
        (callers[c].st = "done" /\ callers[d].st = "done") =>
            callers[c].ret = callers[d].ret
    /\ cfg # Null =>
        IF reads # <<>> /\ ~reads[1].threw
        THEN IsDialectMapping(cfg[1], Split(reads[1].data, NL))
        ELSE IsDefaultsTable(cfg[1])

\* Two callers that both asked while the cache cell was null have been
\* served, and the files changed between their calls: a load made now would
\* give another mapping.
C11_Witness ==
    /\ \E c, d \in Callers :
        /\ c # d
        /\ callers[c].st = "done" /\ callers[c].early
        /\ callers[d].st = "done" /\ callers[d].early
        /\ callers[c].ret = callers[d].ret
    /\ FreshLoad.cfg # cfg

\* What follows the first colon of a line.
AfterFirstColon(line) ==
    LET i == CHOOSE i \in 1..Len(line) :
                line[i] = ":" /\ \A j \in 1..(i - 1) : line[j] # ":"
    IN  SubSeq(line, i + 1, Len(line))

\* C12: the value of an indented line is everything after its first `:`,
\* further colons kept, trimmed, stored as it is: every entry of the parser's
\* output holds that for the last line that set it (`aws: titan:0` gives
\* "titan:0"), and the Defaults Table written out in the dialect parses back
\* to the Defaults Table.
C12_ValueKeepsFurtherColons ==
    parsed.done =>
        /\ \A sector \in DOMAIN parsed.obj :
            \A key \in DOMAIN parsed.obj[sector] :
                \E j \in 1..Len(Split(yml, NL)) :
                    LET ls == Split(yml, NL) IN
                    /\ Search(ls[j]) > 0
                    /\ HeaderOf(ls, j) # 0
                    /\ LineKey(ls[HeaderOf(ls, j)]) = sector
                    /\ Str(Split(Trim(ls[j]), ":")[1]) = key
                    /\ \A i \in (j + 1)..Len(ls) :
                        ~(i \in EntriesOf(ls, sector) /\ LineKey(ls[i]) = key)
                    /\ parsed.obj[sector][key] = Str(Trim(AfterFirstColon(ls[j])))
        /\ \A j \in 1..Len(Split(yml, NL)) :
            LET ls == Split(yml, NL) IN
            ( /\ ls[j] = <<" ", "aws", ":", " ", "titan", ":", "0">>
              /\ HeaderOf(ls, j) # 0
              /\ LineKey(ls[HeaderOf(ls, j)]) # ""
              /\ \A i \in (j + 1)..Len(ls) : LineKind(ls[i]) # "header" )
            => parsed.obj[LineKey(ls[HeaderOf(ls, j)])]["aws"] = "titan:0"
        /\ yml = DefaultsTableText =>
            parsed.obj = get_defaults /\ IsDefaultsTable(parsed.obj)

\* The Defaults Table written out has been parsed back, its values with a
\* colon whole.
C12_Witness ==
    /\ parsed.done
    /\ yml = DefaultsTableText
    /\ \A sector \in BuiltinSectors :
        parsed.obj[sector]["aws"] = "amazon.titan-embed-text-v2:0"
    /\ parsed.obj["reflective"]["local"] = "all-mpnet-base-v2"

\* C13: load_models hands out the cache's own mapping, not a copy: what a
\* caller has written into, or deleted from, the mapping it was given is
\* what every later call returns and what get_model resolves from.
C13_CallerEditsAreObserved ==
    (IsCall /\ ~threw) =>
        /\ ret_cfg = cfg[1]
        /\ \A t \in EditTargets :
            /\ edits[t] = "set" =>
                /\ Present(ret_cfg, t[1], t[2])
                /\ ret_cfg[t[1]][t[2]] = MutatedModel
                /\ (op.name = "get_model" /\ op.sector = t[1] /\ op.provider = t[2])
                       => ret_model = JSString(MutatedModel)
            /\ edits[t] = "deleted" =>
                /\ ~Present(ret_cfg, t[1], t[2])
                /\ (op.name = "get_model" /\ op.sector = t[1] /\ op.provider = t[2])
                       => ret_model = IF Present(ret_cfg, "semantic", t[2])
                                      THEN JSString(ret_cfg["semantic"][t[2]])
                                      ELSE JSString("nomic-embed-text")

\* get_model("semantic", "openai") answers with what a caller wrote, after
\* another entry of the Defaults Table was deleted by a caller.
C13_Witness ==
    /\ op = [name |-> "get_model", sector |-> "semantic", provider |-> "openai"]
    /\ edits[<<"semantic", "openai">>] = "set"
    /\ edits[<<"reflective", "local">>] = "deleted"
    /\ ret_model = JSString(MutatedModel)
    /\ ~Present(ret_cfg, "reflective", "local")
    /\ \A sector \in BuiltinSectors \ {"semantic"} :
          ret_cfg[sector]["openai"] = DefaultsTableValue(sector, "openai")

\* C14: when the candidate of highest priority that exists cannot be read,
\* the loader tries no candidate of lower priority: that one read is the
\* only one ever made, no existence check goes past the candidate found,
\* and the cache cell holds the Defaults Table, not the content of a file.
C14_UnreadableCandidateEndsTheSearch ==
    (reads # <<>> /\ reads[1].threw) =>
        /\ Len(reads) = 1
        /\ IsPrefix(checks, paths)
        /\ checks[Len(checks)] = reads[1].path
        /\ cfg # Null /\ IsDefaultsTable(cfg[1])
        /\ \A data \in FileTexts : cfg[1] # parse_yaml(data)

\* The installation candidate is unreadable and a readable file sits at a
\* candidate of lower priority: the load stopped at the first and gave the
\* Defaults Table.
C14_Witness ==
    /\ op.name = "load_models"
    /\ fs[InstallPath] = Unreadable
    /\ fs[AppPath] = File(FileExample)
    /\ reads = <<Read(InstallPath, readFileSync(fs, InstallPath))>>
    /\ checks = <<InstallPath>>
    /\ cfg = Some(get_defaults)
    /\ parse_yaml(FileExample) # get_defaults

\* Entry line j follows an ignored top-level line with a value, with no
\* header between the two.
FollowsScalar(ls, j) ==
    /\ LineKind(ls[j]) = "entry"
    /\ \E i \in (HeaderOf(ls, j) + 1)..(j - 1) : LineKind(ls[i]) = "scalar"

\* The text without its line j; the text without its ignored top-level lines.
WithoutLine(ls, j) == Join(SubSeq(ls, 1, j - 1) \o SubSeq(ls, j + 1, Len(ls)), NL)
WithoutScalars(ls) == Join(SelectSeq(ls, LAMBDA l : LineKind(l) # "scalar"), NL)

\* o is what the claim gives for the lines ls: the ignored lines change
\* nothing, an entry after one of them is recorded under the header before it
\* (and shows in o unless a later line of that section replaces it), and it
\* adds nothing when no header came before.
ScalarLeavesSection(o, ls) ==
    /\ o = parse_yaml(WithoutScalars(ls))
    /\ \A j \in 1..Len(ls) : FollowsScalar(ls, j) =>
          IF HeaderOf(ls, j) = 0
          THEN o = parse_yaml(WithoutLine(ls, j))
          ELSE LET sector == LineKey(ls[HeaderOf(ls, j)]) IN
               j \in EntriesOf(ls, sector) =>
                  /\ sector \in DOMAIN o
                  /\ LineKey(ls[j]) \in DOMAIN o[sector]
                  /\ (\A i \in EntriesOf(ls, sector) :
                         LineKey(ls[i]) = LineKey(ls[j]) => i <= j)
                     => o[sector][LineKey(ls[j])] = LineVal(ls[j])

\* C15: an ignored top-level line carrying a value leaves the current
\* section unchanged: the indented lines with a value that follow it are
\* recorded under the header that preceded the ignored line, and are dropped
\* only if no header preceded it.
C15_ScalarLeavesSectionUnchanged ==
    parsed.done => ScalarLeavesSection(parsed.obj, Split(yml, NL))

\* C15, for the texts whose headers all have a non-empty key.
C15_ScalarLeavesSectionUnchangedNamedHeaders ==
    ( /\ parsed.done
      /\ \A i \in 1..Len(Split(yml, NL)) :
            LineKind(Split(yml, NL)[i]) = "header" => LineKey(Split(yml, NL)[i]) # "" )
    => ScalarLeavesSection(parsed.obj, Split(yml, NL))

\* A header, an ignored top-level line, then an entry: the entry is in the
\* header's section.
C15_NamedHeaderCase ==
    /\ parsed.done
    /\ yml = Join(<< <<"x", ":">>, <<"foo", ":", " ", "bar">>,
                     <<" ", " ", "openai", ":", " ", "m1">> >>, NL)
    /\ parsed.obj = Put(EmptyObj, "x", Put(EmptyObj, "openai", "m1"))

\* Line i is a header whose name an earlier header has.
RepeatsHeader(ls, i) ==
    /\ LineKind(ls[i]) = "header"
    /\ \E h \in 1..(i - 1) :
          LineKind(ls[h]) = "header" /\ LineKey(ls[h]) = LineKey(ls[i])

\* The entry lines that stand under header line i.
EntriesUnder(ls, i) ==
    {j \in (i + 1)..Len(ls) : LineKind(ls[j]) = "entry" /\ HeaderOf(ls, j) = i}

\* C16: a header that repeats an earlier section name replaces that section
\* with a fresh empty mapping: right after the header line the section is
\* empty, whatever the earlier occurrence had recorded, and at the end of the
\* text the section holds only entries of lines that follow the last header
\* of that name (all of their keys, when the name is not empty).
C16_RepeatedHeaderStartsAfresh ==
    parsed.done =>
        LET ls == Split(yml, NL) IN
        \A i \in 1..Len(ls) : RepeatsHeader(ls, i) =>
            LET sector == LineKey(ls[i])
                upto   == parse_yaml(Join(SubSeq(ls, 1, i), NL))
            IN  /\ sector \in DOMAIN upto /\ upto[sector] = EmptyObj
                /\ sector \in DOMAIN parsed.obj
                /\ (\A h \in (i + 1)..Len(ls) :
                        ~(LineKind(ls[h]) = "header" /\ LineKey(ls[h]) = sector))
                   => /\ \A k \in DOMAIN parsed.obj[sector] :
                            \E j \in EntriesUnder(ls, i) :
                                /\ LineKey(ls[j]) = k
                                /\ LineVal(ls[j]) = parsed.obj[sector][k]
                      /\ sector # "" =>
                            DOMAIN parsed.obj[sector] =
                                {LineKey(ls[j]) : j \in EntriesUnder(ls, i)}

\* Two entries were recorded under the first `semantic:`; after the second
\* one the section holds the one entry that follows it.
C16_Witness ==
    /\ parsed.done
    /\ yml = RepeatedHeaderText
    /\ parse_yaml(Join(SubSeq(Split(yml, NL), 1, 3), NL)) =
          Put(EmptyObj, "semantic",
              Put(Put(EmptyObj, "openai", "m1"), "aws", "titan:0"))
    /\ parsed.obj = Put(EmptyObj, "semantic", Put(EmptyObj, "openai", "m2"))

====
